---- MODULE Spec2Model ----
(***************************************************************************)
(* Model of src/src/neurostasis/web/neural-bg.js: the seeded generator,    *)
(* the graph builder, the physics stepper and the frame scheduler.         *)
(*                                                                         *)
(* Numbers.  TLC's integers are 32 bits wide, so the generator's unsigned  *)
(* 32-bit state is kept as a pair <<hi, lo>> of 16-bit halves and is exact.*)
(* IEEE doubles are modelled in fixed point:                               *)
(*   positions      in micro-pixels      (PosUnit per pixel),              *)
(*   velocities     in 1e-4 pixel/second,                                  *)
(*   distances      in centi-pixels      (for squared distances),          *)
(*   times          in milliseconds.                                       *)
(* Node indices are 0-based as in the source.                              *)
(***************************************************************************)
EXTENDS Integers, Sequences, FiniteSets, TLC

VARIABLES
  ctx,            \* canvas.getContext("2d") returned a context (line 9)
  graph,          \* { nodes, edges }
  lastW, lastH, lastSpacing,
  mouseX, mouseY, \* micro-pixels
  mouseActive, mouseMoveAt,
  raf, running, lastTs,
  pendingFrames,  \* callbacks of `frame` the browser holds for the next repaint
  frameAt,        \* timestamp the browser gave its last animation frame
  now,            \* performance.now(), ms
  innerWidth, innerHeight,
  resizeQueued,   \* a resize event waits to be dispatched
  runActive,      \* body has class "run-active"
  phase,          \* "neutral" | "phase-light" | "phase-post" (body class)
  resultsVisible, \* #results-panel exists and is not hidden
  observerQueued, \* a mutation record of body's class waits for the observer
  hubPicks,       \* per hub slot of the last build: what the selection drew
  hubLog,         \* per hub of the last build: what the linking pass did
  acc,            \* per node: the acceleration terms of the last step
  lastStep,       \* the last frame that ran step: ts - lastTs and dt (ms),
                  \* recentlyMoved, energy
  drawn,          \* draw() has run
  frames,         \* number of frames run, where a specification counts them
  lastOp          \* the last listener or callback run: its name, and `running` before
                  \* it; for a frame also the palette draw() reads (line 164)

vars == <<ctx, graph, lastW, lastH, lastSpacing, mouseX, mouseY, mouseActive,
          mouseMoveAt, raf, running, lastTs, pendingFrames, frameAt, now, innerWidth,
          innerHeight, resizeQueued, runActive, phase, resultsVisible,
          observerQueued, hubPicks, hubLog, acc, lastStep, drawn, frames, lastOp>>

\* ---------------------------------------------------------------- bounds

MaxNow == 200        \* the clock stops here (ms)
TickLong == 200      \* a pause longer than the 180 ms pointer window
MaxViewStep == 1     \* viewports are (20 + 40 k) x 20 for k in 0..MaxViewStep
MaxBuildCol == 7     \* SpecBuild: widths 45 i for i in 0..MaxBuildCol
MaxBuildRow == 6     \* SpecBuild: heights 30 j for j in 0..MaxBuildRow
MaxStepFrames == 2   \* SpecStep: frames run from each start
MaxStepNode == 3     \* SpecStep: the pointer is placed around nodes 1..MaxStepNode
StartAt == 1000      \* SpecStep, SpecSettle: the clock when their frames start (ms)
SettleFrames == 380  \* SpecSettle: frames within which the loop must have stopped
MaxSettleFrames == 385   \* SpecSettle: frames run at most
MaxResizeFrames == 3 \* SpecResize: frames run at most
MaxClockFrames == 2  \* SpecClock: frames run from each start

Viewports == {<<20 + 40 * k, 20>> : k \in 0..MaxViewStep}
Pointers == {<<10, 10>>}
\* windows of SpecResize: 36 px and 37 px wider or higher than 20 x 20, 36 px
\* wider than that, and one without width
ResizeViewports ==
  {<<20, 20>>, <<56, 20>>, <<57, 20>>, <<20, 56>>, <<20, 57>>, <<92, 20>>, <<0, 20>>}
\* windows of SpecBuild: a grid of small ones, and two with more than 354
\* nodes, where Math.round(nodes.length * 0.024) exceeds 8
BuildViewports ==
  {<<45 * i, 30 * j>> : i \in 0..MaxBuildCol, j \in 0..MaxBuildRow}
    \cup {<<500, 400>>, <<640, 400>>}

\* ---------------------------------------------------------------- numbers

PosUnit == 1000 * 1000
CentiPerPos == 100 * 100     \* micro-pixels per centi-pixel
Word == 2 ^ 16

Min(a, b) == IF a < b THEN a ELSE b
Max(a, b) == IF a > b THEN a ELSE b
Abs(a) == IF a < 0 THEN -a ELSE a

\* floor(a * b / c) for a >= 0, b >= 0, c > 0 without leaving 32 bits
\* (needs (c - 1) * b and the result to fit).
MulDiv(a, b, c) == (a \div c) * b + ((a % c) * b) \div c

\* a * b / c truncated toward zero, a of either sign.
SMulDiv(a, b, c) == IF a >= 0 THEN MulDiv(a, b, c) ELSE -MulDiv(-a, b, c)

\* Math.round(a / b) for a >= 0, b > 0.
RoundDiv(a, b) == (2 * a + b) \div (2 * b)

\* Math.ceil(a / b) for a >= 0, b > 0.
CeilDiv(a, b) == (a + b - 1) \div b

RECURSIVE Xor(_, _, _)
\* bitwise exclusive or of two n-bit naturals
Xor(a, b, n) ==
  IF n = 0 \/ a = b THEN 0
  ELSE ((a + b) % 2) + 2 * Xor(a \div 2, b \div 2, n - 1)

Xor32(s, t) == <<Xor(s[1], t[1], 16), Xor(s[2], t[2], 16)>>

\* (s << k) as unsigned 32 bits, k < 16
Shl32(s, k) ==
  LET p == 2 ^ k
  IN  <<(s[1] * p + (s[2] * p) \div Word) % Word, (s[2] * p) % Word>>

\* s >>> 17
Shr17(s) == <<0, s[1] \div 2>>

\* (s + t) mod 2^32
Add32(s, t) == <<(s[1] + t[1] + (s[2] + t[2]) \div Word) % Word, (s[2] + t[2]) % Word>>

RECURSIVE MulWord32(_, _)
\* (n * <<khi, klo>>) mod 2^32 for n >= 0: the product is below 2^53, so the
\* double holds it exactly and ^ keeps its low 32 bits
MulWord32(n, k) ==
  IF n = 0 THEN <<0, 0>>
  ELSE Add32(IF n % 2 = 1 THEN k ELSE <<0, 0>>, Shl32(MulWord32(n \div 2, k), 1))

RECURSIVE Loop(_, _, _, _)
\* for (i = lo; i <= hi; i += 1) st = Body(st, i).  The range is halved and the
\* first half is evaluated (the test first = first makes TLC compute it)
\* before the second starts, so the evaluation depth stays logarithmic in the
\* trip count.
Loop(Body(_, _), st, lo, hi) ==
  IF lo > hi THEN st
  ELSE IF lo = hi THEN Body(st, lo)
  ELSE LET mid   == (lo + hi) \div 2
           first == Loop(Body, st, lo, mid)
       IN  IF first = first THEN Loop(Body, first, mid + 1, hi) ELSE first

\* ---------------------------------------------------------------- makeRng

\* LET x == v IN F(x), with v computed once however often F uses x
Let(v, F(_)) == CHOOSE r \in {F(x) : x \in {v}} : TRUE

\* one call of the closure makeRng returns: the next state
RngNext(s) ==
  Let(Xor32(s, Shl32(s, 13)), LAMBDA a :
  Let(Xor32(a, Shr17(a)), LAMBDA b :
    Xor32(b, Shl32(b, 5))))

\* Math.floor(rng() * n) where rng() = s / 2^32, 0 <= n < 2^15
FloorMul(s, n) == (s[1] * n + (s[2] * n) \div Word) \div Word

\* a seed that also mixes in the clock
SeedFromClock(w, h) ==
  Xor32(Xor32(MulWord32(w, <<1126, 62557>>), MulWord32(h, <<295, 16543>>)),
        <<42303, (39709 + now) % Word>>)

\* (w * 73856093) ^ (h * 19349663) ^ 0xa53f9b1d, then >>> 0
Seed(w, h) ==
  Xor32(Xor32(MulWord32(w, <<1126, 62557>>), MulWord32(h, <<295, 16543>>)),
        <<42303, 39709>>)

\* ---------------------------------------------------------------- buildGraph

\* Math.max(30, Math.min(46, Math.round(w / 38)))
Spacing(w) == Max(30, Min(46, RoundDiv(w, 38)))

\* Math.ceil(w / spacing) + 3
Cols(w) == CeilDiv(w, Spacing(w)) + 3

\* Math.ceil(h / dy) + 3 with dy = spacing * 0.866
Rows(w, h) == CeilDiv(h * 1000, Spacing(w) * 866) + 3

\* (rng() - 0.5) * spacing * 0.18 in micro-pixels: 180000 / 2^16 = 5625 / 2048
JitterX(s, spacing) ==
  MulDiv((s[1] - 32768) * spacing, 5625, 2048)
    + MulDiv(s[2] * spacing, 5625, 2048) \div Word

\* (rng() - 0.5) * dy * 0.18 in micro-pixels: 0.866 * 180000 / 2^16 = 19485 / 8192
JitterY(s, spacing) ==
  MulDiv((s[1] - 32768) * spacing, 19485, 8192)
    + MulDiv(s[2] * spacing, 19485, 8192) \div Word

\* the node pushed for lattice cell (r, c), given the two generator states
NewNode(r, c, spacing, sx, sy) ==
  LET x == c * spacing * PosUnit + (r % 2) * ((spacing * PosUnit) \div 2)
             + JitterX(sx, spacing) - spacing * PosUnit
      y == r * spacing * 866000 + JitterY(sy, spacing) - spacing * 866000
  IN  [x |-> x, y |-> y, bx |-> x, by |-> y, vx |-> 0, vy |-> 0,
       deg |-> 0, hub |-> FALSE]

\* the body of the inner loop of lines 61-69 for i = r * cols + c
GenNode(st, i, cols, spacing) ==
  Let(RngNext(st.s), LAMBDA sx :
  Let(RngNext(sx), LAMBDA sy :
    [st EXCEPT !.s = sy,
               !.nodes = Append(@, NewNode(i \div cols, i % cols, spacing, sx, sy))]))

\* the two nested loops over r and c (lines 59-70)
GenNodes(st, rows, cols, spacing) ==
  LET Step(t, i) == GenNode(t, i, cols, spacing)
  IN  Loop(Step, st, 0, rows * cols - 1)

\* idx[r][c] ?? -1 : row r exists whenever the source reads it
Idx(r, c, cols) == IF c < 0 \/ c >= cols THEN -1 ELSE r * cols + c

\* the canonical key `${min}-${max}`
EdgeKey(a, b) == IF a < b THEN <<a, b>> ELSE <<b, a>>

\* addEdge without the tests of lines 75 and 77
AddEdgeNoDedup(st, a, b) ==
  IF a < 0 \/ b < 0 THEN st
  ELSE [st EXCEPT !.edgeSet = @ \cup {EdgeKey(a, b)},
                  !.edges = Append(@, <<a, b>>),
                  !.nodes = [@ EXCEPT ![a + 1].deg = @ + 1, ![b + 1].deg = @ + 1]]

\* addEdge (lines 74-82)
AddEdge(st, a, b) ==
  IF a < 0 \/ b < 0 \/ a = b THEN st
  ELSE IF EdgeKey(a, b) \in st.edgeSet THEN st
  ELSE [st EXCEPT !.edgeSet = @ \cup {EdgeKey(a, b)},
                  !.edges = Append(@, <<a, b>>),
                  !.nodes = [@ EXCEPT ![a + 1].deg = @ + 1, ![b + 1].deg = @ + 1]]

\* the body of the mesh loop for cell (r, c) (lines 86-96)
MeshCell(st, r, c, rows, cols) ==
  Let(AddEdge(st, Idx(r, c, cols), Idx(r, c + 1, cols)), LAMBDA s1 :
    IF r + 1 < rows
    THEN AddEdge(AddEdge(s1, Idx(r, c, cols), Idx(r + 1, c, cols)),
                 Idx(r, c, cols),
                 Idx(r + 1, IF r % 2 = 0 THEN c - 1 ELSE c + 1, cols))
    ELSE s1)

\* the mesh loops (lines 84-98)
Mesh(st, rows, cols) ==
  LET Step(t, i) == MeshCell(t, i \div cols, i % cols, rows, cols)
  IN  Loop(Step, st, 0, rows * cols - 1)

\* Math.max(8, Math.round(nodes.length * 0.024))
HubCount(n) == Max(8, RoundDiv(n * 24, 1000))

\* the retry limit of the hub pick (line 105)
GuardLimit == 60

Range(q) == {q[k] : k \in 1..Len(q)}

SeqHas(q, e) == e \in Range(q)

\* the hub pick without its retry loop
PickLoopNoRetry(s, pick, guard, chosen, n) == [pick |-> pick, s |-> s, guard |-> guard]

RECURSIVE PickLoop(_, _, _, _, _)
\* the while loop of lines 105-108: pick, generator state and guard when it
\* ends. From a state the generator maps to itself every redraw is the pick
\* again, and the loop ends when guard reaches the limit.
PickLoop(s, pick, guard, chosen, n) ==
  IF SeqHas(chosen, pick) /\ guard < GuardLimit
  THEN Let(RngNext(s), LAMBDA s2 :
         IF s2 = s /\ FloorMul(s2, n) = pick
         THEN [pick |-> pick, s |-> s, guard |-> GuardLimit]
         ELSE PickLoop(s2, FloorMul(s2, n), guard + 1, chosen, n))
  ELSE [pick |-> pick, s |-> s, guard |-> guard]

\* the body of the hub selection loop (lines 103-110) over n nodes; chosen
\* keeps the Set's insertion order, picks records every slot: the index it
\* flags, the redraws it took and whether the index was new to chosen
PickHub(t, n) ==
  Let(RngNext(t.s), LAMBDA s1 :
  Let(PickLoop(s1, FloorMul(s1, n), 0, t.chosen, n), LAMBDA p :
    [s |-> p.s,
     chosen |-> IF SeqHas(t.chosen, p.pick) THEN t.chosen ELSE Append(t.chosen, p.pick),
     picks |-> Append(t.picks, [pick |-> p.pick, guard |-> p.guard,
                                fresh |-> ~SeqHas(t.chosen, p.pick)])]))

\* the hub selection loop (lines 102-111) from generator state s
PickHubs(s, n, hubCount) ==
  LET Step(t, i) == PickHub(t, n)
  IN  Loop(Step, [s |-> s, chosen |-> <<>>, picks |-> <<>>], 0, hubCount - 1)

\* line 109 for every slot: nodes[pick].hub = true
FlagHubs(nodes, flagged) ==
  [k \in 1..Len(nodes) |-> [nodes[k] EXCEPT !.hub = (k - 1) \in flagged]]

\* the generator state after `draws` calls; a state the generator maps to
\* itself stays
GenState(s, draws) ==
  LET Step(t, i) == RngNext(t)
  IN  IF RngNext(s) = s THEN s ELSE Loop(Step, s, 1, draws)

\* hub selection as buildGraph(w, h) runs it: the node pass has drawn twice
\* per node (lines 63-64), the mesh pass draws nothing
HubPass(w, h) ==
  PickHubs(GenState(Seed(w, h), 2 * Rows(w, h) * Cols(w)), Rows(w, h) * Cols(w),
           HubCount(Rows(w, h) * Cols(w)))

\* hub selection (lines 102-111) in the build state st
SelectHubs(st, hubCount) ==
  Let(PickHubs(st.s, Len(st.nodes), hubCount), LAMBDA t :
    [st EXCEPT !.s = t.s, !.chosen = t.chosen, !.picks = t.picks,
               !.nodes = FlagHubs(@, Range(t.chosen))])

\* a / c truncated toward zero
SDiv(a, c) == IF a >= 0 THEN a \div c ELSE -((-a) \div c)

\* xh^2 + yh^2 + 2 (xh xl + yh yl) / 10^4 + (xl^2 + yl^2) / 10^8 for the two
\* differences xh * 10^4 + xl and yh * 10^4 + yl, as <<hi, lo>>
SumSquares(xh, xl, yh, yl, maxC) ==
  LET mid == 2 * (xh * xl + yh * yl)
      lo  == (mid % CentiPerPos) * CentiPerPos + xl * xl + yl * yl
  IN  IF xh >= maxC \/ yh >= maxC \/ xh * xh >= maxC * maxC - yh * yh
      THEN <<maxC * maxC, 0>>
      ELSE <<xh * xh + yh * yh + mid \div CentiPerPos + lo \div (CentiPerPos * CentiPerPos),
             lo % (CentiPerPos * CentiPerPos)>>

\* dx * dx + dy * dy between two points given in micro-pixels, exactly, as
\* <<hi, lo>> = hi * 10^8 + lo square micro-pixels (hi counts square
\* centi-pixels, lo < 10^8). Any distance of maxC centi-pixels or more is
\* reported as maxC squared, which is all the callers compare it with (this
\* keeps every intermediate inside 32 bits).
Dist2(px, py, qx, qy, maxC) ==
  SumSquares(Abs(px - qx) \div CentiPerPos, Abs(px - qx) % CentiPerPos,
             Abs(py - qy) \div CentiPerPos, Abs(py - qy) % CentiPerPos, maxC)

\* a.d - b.d <= 0 for two squared distances
NotFarther(a, b) == a[1] < b[1] \/ (a[1] = b[1] /\ a[2] <= b[2])

\* the body of the scan of lines 117-126 for node j (maxC = maxRadius in
\* centi-pixels; d is kept squared)
ScanNode(q, nodes, hubIdx, j, maxC) ==
  Let(Dist2(nodes[j + 1].x, nodes[j + 1].y, nodes[hubIdx + 1].x, nodes[hubIdx + 1].y, maxC),
      LAMBDA d2 :
        IF j # hubIdx /\ d2[1] < maxC * maxC THEN Append(q, [j |-> j, d |-> d2]) ELSE q)

\* candidates {j, d} in scan order
Scan(nodes, hubIdx, maxC) ==
  LET Step(q, j) == ScanNode(q, nodes, hubIdx, j, maxC)
  IN  Loop(Step, <<>>, 0, Len(nodes) - 1)

\* q, sorted, with e put after every element not farther than e
InsertSorted(q, e) ==
  Let(Cardinality({k \in 1..Len(q) : NotFarther(q[k].d, e.d)}), LAMBDA n :
    SubSeq(q, 1, n) \o <<e>> \o SubSeq(q, n + 1, Len(q)))

\* candidates.sort((a, b) => a.d - b.d): ascending, stable
SortByD(q) ==
  LET Step(t, k) == InsertSorted(t, q[k])
  IN  Loop(Step, <<>>, 1, Len(q))

\* the loop of lines 129-131
NearLinks(st, hubIdx, cand, m) ==
  LET Step(t, k) == AddEdge(t, hubIdx, cand[k + 1].j)
  IN  Loop(Step, st, 0, m - 1)

\* the far pick indexing one past the end of candidates
FarLinkPastEnd(st, hubIdx, cand) ==
  Let(RngNext(st.s), LAMBDA s1 :
  Let(Len(cand) - FloorMul(s1, Len(cand)), LAMBDA t :
    IF t >= 0 /\ t < Len(cand)
    THEN [AddEdge([st EXCEPT !.s = s1], hubIdx, cand[t + 1].j)
            EXCEPT !.far = Append(@, cand[t + 1].j)]
    ELSE [st EXCEPT !.s = s1]))

\* the body of the loop of lines 135-139; st.far collects the targets it
\* links; t is candidates.length - 1 - idxPick
FarLink(st, hubIdx, cand) ==
  Let(RngNext(st.s), LAMBDA s1 :
  Let(Len(cand) - 1 - FloorMul(s1, Len(cand)), LAMBDA t :
    IF t >= 0 /\ t < Len(cand)
    THEN [AddEdge([st EXCEPT !.s = s1], hubIdx, cand[t + 1].j)
            EXCEPT !.far = Append(@, cand[t + 1].j)]
    ELSE [st EXCEPT !.s = s1]))

FarLinks(st, hubIdx, cand, farLinks) ==
  LET Step(t, f) == FarLink(t, hubIdx, cand)
  IN  Loop(Step, st, 0, farLinks - 1)

\* the body of the loop over chosen (lines 115-139)
LinkHub(st, hubIdx, spacing) ==
  Let(SortByD(Scan(st.nodes, hubIdx, spacing * 840)), LAMBDA cand :
  Let(RngNext(st.s), LAMBDA s1 :
  Let(8 + FloorMul(s1, 8), LAMBDA links :
  Let(NearLinks([st EXCEPT !.s = s1], hubIdx, cand, Min(links, Len(cand))), LAMBDA stN :
  Let(RngNext(stN.s), LAMBDA s2 :
  Let(2 + FloorMul(s2, 2), LAMBDA farLinks :
  Let(FarLinks([stN EXCEPT !.s = s2, !.far = <<>>], hubIdx, cand, farLinks), LAMBDA stF :
    [stF EXCEPT !.hubLog =
       Append(@, [hub |-> hubIdx,
                  cand |-> [k \in 1..Len(cand) |-> cand[k].j],
                  links |-> links,
                  farLinks |-> farLinks,
                  near |-> [k \in 1..Min(links, Len(cand)) |-> cand[k].j],
                  far |-> stF.far])])))))))

\* for (const hubIdx of chosen): insertion order
LinkHubs(st, spacing) ==
  LET Step(t, k) == LinkHub(t, t.chosen[k], spacing)
  IN  Loop(Step, st, 1, Len(st.chosen))

\* buildGraph(w, h) (lines 48-142): the graph it returns, with the spacing it
\* stores in lastSpacing and the record of its hub pass
BuildGraph(w, h) ==
  Let([s |-> Seed(w, h), nodes |-> <<>>, edges |-> <<>>, edgeSet |-> {},
       chosen |-> <<>>, picks |-> <<>>, far |-> <<>>, hubLog |-> <<>>], LAMBDA st0 :
  Let(Mesh(GenNodes(st0, Rows(w, h), Cols(w), Spacing(w)), Rows(w, h), Cols(w)), LAMBDA st2 :
  Let(LinkHubs(SelectHubs(st2, HubCount(Len(st2.nodes))), Spacing(w)), LAMBDA st4 :
    [nodes |-> st4.nodes, edges |-> st4.edges, spacing |-> Spacing(w),
     hubPicks |-> st4.picks, hubLog |-> st4.hubLog])))

\* ---------------------------------------------------------------- DOM reads

\* a gate that forgets the results panel
GateIgnoresResults == ~runActive

\* palette() (lines 31-39): body carries at most one of the two phase classes
Palette ==
  IF phase = "phase-light"
  THEN [edge |-> "rgba(28, 38, 56, 0.10)", hub |-> "rgba(38, 52, 79, 0.36)",
        node |-> "rgba(38, 52, 79, 0.20)"]
  ELSE IF phase = "phase-post"
  THEN [edge |-> "rgba(170, 188, 222, 0.09)", hub |-> "rgba(212, 226, 248, 0.30)",
        node |-> "rgba(198, 215, 245, 0.18)"]
  ELSE [edge |-> "rgba(148, 168, 207, 0.10)", hub |-> "rgba(188, 209, 247, 0.34)",
        node |-> "rgba(170, 194, 238, 0.20)"]

\* interactionEnabled() (lines 41-46)
InteractionEnabled == ~(runActive \/ resultsVisible)

\* ---------------------------------------------------------------- step

RECURSIVE SqrtSearch(_, _, _)
\* the largest r in lo..hi with r * r <= n
SqrtSearch(n, lo, hi) ==
  IF lo >= hi THEN lo
  ELSE Let((lo + hi + 1) \div 2, LAMBDA mid :
         IF mid * mid <= n THEN SqrtSearch(n, mid, hi) ELSE SqrtSearch(n, lo, mid - 1))

\* Math.sqrt, rounded down
Sqrt(n) == SqrtSearch(n, 0, 46340)

RECURSIVE ExpTerm(_, _)
\* x^k / k! in 1e-6 units, x4 = x in 1e-4 units
ExpTerm(k, x4) ==
  IF k = 0 THEN PosUnit ELSE MulDiv(ExpTerm(k - 1, x4), x4, 10000 * k)

\* no damping at all: Math.exp(0)
NoDamping(dt) == PosUnit

\* Math.exp(-6.4 * dt) in 1e-6 units, dt in ms: the series to the 8th term
Damping(dt) ==
  Let(dt * 64, LAMBDA x4 :
    ExpTerm(0, x4) - ExpTerm(1, x4) + ExpTerm(2, x4) - ExpTerm(3, x4)
      + ExpTerm(4, x4) - ExpTerm(5, x4) + ExpTerm(6, x4) - ExpTerm(7, x4)
      + ExpTerm(8, x4))

\* Damping for every dt from 0 to the ceiling of the clamp of line 230,
\* computed once
DampingOf == [dt \in 0..32 |-> Damping(dt)]

\* v * damping, damping in 1e-6 units
Damp(v, damping) ==
  SMulDiv(v, damping \div 1000, 1000) + SMulDiv(v, damping % 1000, PosUnit)

\* an attraction radius twice as wide
AttractRadiusWide(spacing) == spacing * 960

\* attractRadius = lastSpacing * 4.8, in centi-pixels
AttractRadius(spacing) == spacing * 480

\* lines 207-212 for a node at squared distance d2 from the pointer, inside
\* the radius R: dx, dy and d = Math.sqrt(d2) are in centi-pixels, or in
\* micro-pixels when the distance is below 0.01 px
Pull(hub, dx, dy, d, far) ==
  Let(10000 - far, LAMBDA t :
  Let(IF hub THEN MulDiv(MulDiv(t * t, 11, 50), 134, 100) ELSE MulDiv(t * t, 11, 50),
      LAMBDA pm :
        <<IF dx < 0 THEN -MulDiv(pm, -dx, d) ELSE MulDiv(pm, dx, d),
          IF dy < 0 THEN -MulDiv(pm, -dy, d) ELSE MulDiv(pm, dy, d)>>))

\* the pointer term of lines 203-213 for node n, as <<x, y>> in 1e-4 px/s^2:
\* what `ax += ...` and `ay += ...` add; d2 > 1e-6 is d2 > 10^6 square
\* micro-pixels
PointerPull(n, spacing) ==
  Let(AttractRadius(spacing), LAMBDA R :
  Let(Dist2(mouseX, mouseY, n.x, n.y, R), LAMBDA d2 :
    IF (d2[1] > 0 \/ d2[2] > PosUnit) /\ d2[1] < R * R
    THEN IF d2[1] = 0
         THEN Pull(n.hub, mouseX - n.x, mouseY - n.y, Sqrt(d2[2]), 0)
         ELSE Let(Sqrt(d2[1]), LAMBDA d :
                Pull(n.hub, SDiv(mouseX - n.x, CentiPerPos), SDiv(mouseY - n.y, CentiPerPos),
                     d, MulDiv(d, 10000, R)))
    ELSE <<0, 0>>))

\* the spring term of lines 199-200 as <<x, y>> in 1e-4 px/s^2: springK = 8.8
Spring(n) == <<SMulDiv(n.bx - n.x, 11, 125), SMulDiv(n.by - n.y, 11, 125)>>

\* lines 215-220 with the rest position following the node
IntegrateMovesRest(n, ax, ay, dt) ==
  Let(Damp(n.vx + SMulDiv(ax, dt, 1000), DampingOf[dt]), LAMBDA vx :
  Let(Damp(n.vy + SMulDiv(ay, dt, 1000), DampingOf[dt]), LAMBDA vy :
    [n EXCEPT !.vx = vx, !.vy = vy,
              !.x = @ + SDiv(vx * dt, 10),
              !.y = @ + SDiv(vy * dt, 10),
              !.bx = @ + SDiv(vx * dt, 10),
              !.by = @ + SDiv(vy * dt, 10)]))

\* lines 215-220 for node n with acceleration <<ax, ay>>
Integrate(n, ax, ay, dt) ==
  Let(Damp(n.vx + SMulDiv(ax, dt, 1000), DampingOf[dt]), LAMBDA vx :
  Let(Damp(n.vy + SMulDiv(ay, dt, 1000), DampingOf[dt]), LAMBDA vy :
    [n EXCEPT !.vx = vx, !.vy = vy,
              !.x = @ + SDiv(vx * dt, 10),
              !.y = @ + SDiv(vy * dt, 10)]))

\* the loop body of lines 199-220 for one node: the node after the step, the
\* two acceleration terms and the position they were computed at
StepNode(n, spacing, dt, recentlyMoved) ==
  Let(Spring(n), LAMBDA sp :
  Let(IF recentlyMoved THEN PointerPull(n, spacing) ELSE <<0, 0>>, LAMBDA pp :
    [node |-> Integrate(n, sp[1] + pp[1], sp[2] + pp[2], dt),
     spring |-> sp, pointer |-> pp, from |-> <<n.x, n.y>>]))

RECURSIVE SumSeq(_, _)
SumSeq(q, k) == IF k = 0 THEN 0 ELSE q[k] + SumSeq(q, k - 1)

\* a pointer window that forgets the gate
RecentlyMovedUngated(nowMs) == mouseActive /\ nowMs - mouseMoveAt < 180

\* recentlyMoved of lines 195 and 237
RecentlyMoved(nowMs) == InteractionEnabled /\ mouseActive /\ nowMs - mouseMoveAt < 180

\* step(dt, nowMs) (lines 187-223) on graph nodes nds with lastSpacing =
\* spacing, dt in ms: the nodes after the step, the acceleration terms per
\* node and the sum `energy`
Step(nds, spacing, dt, nowMs) ==
  Let([k \in 1..Len(nds) |-> StepNode(nds[k], spacing, dt, RecentlyMoved(nowMs))],
      LAMBDA res :
        [nodes |-> [k \in 1..Len(nds) |-> res[k].node],
         acc |-> [k \in 1..Len(nds) |->
                    [spring |-> res[k].spring, pointer |-> res[k].pointer,
                     from |-> res[k].from]],
         energy |-> SumSeq([k \in 1..Len(nds) |->
                              Abs(res[k].node.vx) + Abs(res[k].node.vy)], Len(nds))])

\* line 235 with settling always false
SettlingIgnored(energy, n) == FALSE

\* e > 0.0013 with e = energy / Math.max(1, graph.nodes.length), in 1e-4 px/s
Settling(energy, n) == energy > 13 * Max(1, n)

\* ---------------------------------------------------------------- scheduler

\* the script without the return of line 10
InstalledAlways == TRUE

\* the return of line 10: what follows it (the listeners, the observer,
\* window.redrawNeuralBackground, the first ensureRun) exists only with a context
Installed == ctx

\* no frame has run step yet
NoStep == [dt |-> 0, recentlyMoved |-> FALSE, energy |-> 0, elapsed |-> 0]

\* line 12
EmptyGraph == [nodes |-> <<>>, edges |-> <<>>]

\* buildGraph for the window sizes the events offer, computed once
BuiltFor == [v \in Viewports |-> BuildGraph(v[1], v[2])]

\* buildGraph for the clamped window sizes of SpecResize, computed once
BuiltForResize ==
  [v \in {<<Max(1, u[1]), Max(1, u[2])>> : u \in ResizeViewports} |-> BuildGraph(v[1], v[2])]

\* buildGraph(w, h) as line 155 calls it
Built(w, h) ==
  IF <<w, h>> \in Viewports THEN BuiltFor[<<w, h>>]
  ELSE IF <<w, h>> \in DOMAIN BuiltForResize THEN BuiltForResize[<<w, h>>]
  ELSE BuildGraph(w, h)

\* line 154 with any change of size rebuilding
MustRebuildAnyChange(force, w, h) ==
  force \/ w # lastW \/ h # lastH \/ Len(graph.nodes) = 0

\* the condition of line 154, w and h already clamped
MustRebuild(force, w, h) ==
  force \/ Abs(w - lastW) > 36 \/ Abs(h - lastH) > 36 \/ Len(graph.nodes) = 0

\* lines 155-157: the fields a rebuild for the clamped size (w, h) leaves
Rebuilt(w, h) ==
  Let(Built(w, h), LAMBDA b :
    [graph |-> [nodes |-> b.nodes, edges |-> b.edges],
     lastW |-> w, lastH |-> h, lastSpacing |-> b.spacing,
     hubPicks |-> b.hubPicks, hubLog |-> b.hubLog])

\* resizeMaybeRebuild(force) (lines 144-159): the fields it leaves behind
ResizeMaybeRebuild(force) ==
  IF MustRebuild(force, Max(1, innerWidth), Max(1, innerHeight))
  THEN Rebuilt(Max(1, innerWidth), Max(1, innerHeight))
  ELSE [graph |-> graph, lastW |-> lastW, lastH |-> lastH,
        lastSpacing |-> lastSpacing, hubPicks |-> hubPicks, hubLog |-> hubLog]

\* the fields of rb, written
Store(rb) ==
  /\ graph' = rb.graph
  /\ lastW' = rb.lastW
  /\ lastH' = rb.lastH
  /\ lastSpacing' = rb.lastSpacing
  /\ hubPicks' = rb.hubPicks
  /\ hubLog' = rb.hubLog

\* ensureRun without the test of line 248
EnsureRunAlways(forceRebuild) ==
  /\ Store(ResizeMaybeRebuild(forceRebuild))
  /\ running' = TRUE
  /\ lastTs' = now
  /\ raf' = 1
  /\ pendingFrames' = pendingFrames + 1

\* ensureRun that never requests a frame
EnsureRunRebuildOnly(forceRebuild) ==
  /\ Store(ResizeMaybeRebuild(forceRebuild))
  /\ UNCHANGED <<running, lastTs, raf, pendingFrames>>

\* ensureRun(forceRebuild) (lines 246-253); raf is 0 or a request id, every
\* id written as 1
EnsureRun(forceRebuild) ==
  /\ Store(ResizeMaybeRebuild(forceRebuild))
  /\ IF ~running
     THEN /\ running' = TRUE
          /\ lastTs' = now
          /\ raf' = 1
          /\ pendingFrames' = pendingFrames + 1
     ELSE UNCHANGED <<running, lastTs, raf, pendingFrames>>

\* line 230 with a floor of 0
ClampDtFloorZero(ts) == Min(32, Max(0, IF ts - lastTs = 0 THEN 16 ELSE ts - lastTs))

\* Math.min(0.032, Math.max(0.008, (ts - lastTs) / 1000 || 0.016)), in ms
ClampDt(ts) == Min(32, Max(8, IF ts - lastTs = 0 THEN 16 ELSE ts - lastTs))

\* lines 233-243 of frame: st is what step returned for the graph of rb
FrameEnd(ts, dt, rb, st) ==
  /\ graph' = [nodes |-> st.nodes, edges |-> rb.graph.edges]
  /\ lastW' = rb.lastW
  /\ lastH' = rb.lastH
  /\ lastSpacing' = rb.lastSpacing
  /\ hubPicks' = rb.hubPicks
  /\ hubLog' = rb.hubLog
  /\ acc' = st.acc
  /\ lastStep' = [dt |-> dt, recentlyMoved |-> RecentlyMoved(ts), energy |-> st.energy,
                  elapsed |-> ts - lastTs]
  /\ drawn' = TRUE
  /\ IF Settling(st.energy, Len(st.nodes)) \/ RecentlyMoved(ts)
     THEN /\ raf' = 1
          /\ pendingFrames' = pendingFrames
          /\ UNCHANGED running
     ELSE /\ running' = FALSE
          /\ raf' = 0
          /\ pendingFrames' = pendingFrames - 1

\* lines 230-232 of frame: rb is what resizeMaybeRebuild(false) left
FrameStep(ts, dt, rb) ==
  \E st \in {Step(rb.graph.nodes, rb.lastSpacing, dt, ts)} : FrameEnd(ts, dt, rb, st)

\* frame(ts) (lines 228-244), run by the browser for a pending callback
Frame(ts) ==
  /\ pendingFrames > 0
  /\ IF ~running
     THEN /\ pendingFrames' = pendingFrames - 1
          /\ UNCHANGED <<graph, lastW, lastH, lastSpacing, hubPicks, hubLog, running,
                         lastTs, raf, acc, lastStep, drawn>>
     ELSE /\ lastTs' = ts
          /\ \E rb \in {ResizeMaybeRebuild(FALSE)} : FrameStep(ts, ClampDt(ts), rb)
  /\ lastOp' = [op |-> "frame", wasRunning |-> running, palette |-> Palette]
  /\ frameAt' = ts
  /\ UNCHANGED <<ctx, mouseX, mouseY, mouseActive, mouseMoveAt, innerWidth,
                 innerHeight, resizeQueued, runActive, phase, resultsVisible,
                 observerQueued>>

\* ---------------------------------------------------------------- events

schedVars == <<graph, lastW, lastH, lastSpacing, hubPicks, hubLog, running, lastTs,
               raf, pendingFrames>>
mouseVars == <<mouseX, mouseY, mouseActive, mouseMoveAt>>
domVars == <<runActive, phase, resultsVisible, observerQueued>>
stepVars == <<acc, lastStep, drawn>>
envVars == <<ctx, frameAt, now, innerWidth, innerHeight, resizeQueued, frames>>

Event(name) == [op |-> name, wasRunning |-> running]

\* a listener's call of ensureRun, when the listener was installed
Wake(forceRebuild) ==
  IF Installed THEN EnsureRun(forceRebuild) ELSE UNCHANGED schedVars

\* the window's size changes; the browser queues a resize event
ViewportChange(v) ==
  /\ ~observerQueued
  /\ v # <<innerWidth, innerHeight>>
  /\ innerWidth' = v[1]
  /\ innerHeight' = v[2]
  /\ resizeQueued' = TRUE
  /\ UNCHANGED <<ctx, schedVars, mouseVars, domVars, stepVars, frameAt, now, frames,
                 lastOp>>

\* window "resize" listener (line 257)
Resize ==
  /\ ~observerQueued
  /\ resizeQueued
  /\ resizeQueued' = FALSE
  /\ Wake(TRUE)
  /\ lastOp' = Event("resize")
  /\ UNCHANGED <<ctx, mouseVars, domVars, stepVars, frameAt, now, innerWidth,
                 innerHeight, frames>>

\* window "pointermove" listener (lines 258-265)
PointerMove(p) ==
  /\ ~observerQueued
  /\ IF Installed /\ InteractionEnabled
     THEN /\ mouseX' = p[1] * PosUnit
          /\ mouseY' = p[2] * PosUnit
          /\ mouseActive' = TRUE
          /\ mouseMoveAt' = now
          /\ EnsureRun(FALSE)
     ELSE UNCHANGED <<mouseVars, schedVars>>
  /\ lastOp' = Event("pointermove")
  /\ UNCHANGED <<envVars, domVars, stepVars>>

\* window "pointerleave" listener (lines 266-270)
PointerLeave ==
  /\ ~observerQueued
  /\ IF Installed
     THEN /\ mouseActive' = FALSE
          /\ mouseMoveAt' = now
          /\ EnsureRun(FALSE)
          /\ UNCHANGED <<mouseX, mouseY>>
     ELSE UNCHANGED <<mouseVars, schedVars>>
  /\ lastOp' = Event("pointerleave")
  /\ UNCHANGED <<envVars, domVars, stepVars>>

\* window "touchmove" listener (lines 271-283); touches is ev.touches
TouchMove(touches) ==
  /\ ~observerQueued
  /\ IF Installed /\ InteractionEnabled /\ Len(touches) # 0
     THEN /\ mouseX' = touches[1][1] * PosUnit
          /\ mouseY' = touches[1][2] * PosUnit
          /\ mouseActive' = TRUE
          /\ mouseMoveAt' = now
          /\ EnsureRun(FALSE)
     ELSE UNCHANGED <<mouseVars, schedVars>>
  /\ lastOp' = Event(IF Len(touches) = 0 THEN "touchmove-empty" ELSE "touchmove")
  /\ UNCHANGED <<envVars, domVars, stepVars>>

\* window "touchend" listener (lines 284-288)
TouchEnd ==
  /\ ~observerQueued
  /\ IF Installed
     THEN /\ mouseActive' = FALSE
          /\ mouseMoveAt' = now
          /\ EnsureRun(FALSE)
          /\ UNCHANGED <<mouseX, mouseY>>
     ELSE UNCHANGED <<mouseVars, schedVars>>
  /\ lastOp' = Event("touchend")
  /\ UNCHANGED <<envVars, domVars, stepVars>>

\* window.redrawNeuralBackground() (line 289) as the page calls it: only when
\* it is a function, which it is only past line 10
Redraw ==
  /\ Wake(FALSE)
  /\ lastOp' = IF Installed THEN Event("redraw") ELSE lastOp

\* the page's startSession up to its first await: toggleView("run") and
\* setPhase("BASELINE"), which calls the redraw hook; body's class changed
StartSession ==
  /\ ~observerQueued
  /\ ~runActive /\ ~resultsVisible
  /\ runActive' = TRUE
  /\ phase' = "neutral"
  /\ resultsVisible' = FALSE
  /\ observerQueued' = Installed
  /\ Redraw
  /\ UNCHANGED <<envVars, mouseVars, stepVars>>

\* the page's setPhase(ph) for a "phase" or "tick" event of a session: body's
\* class attribute is written whether or not the phase differs
SetPhase(ph) ==
  /\ ~observerQueued
  /\ runActive
  /\ phase' = ph
  /\ observerQueued' = Installed
  /\ Redraw
  /\ UNCHANGED <<envVars, mouseVars, stepVars, runActive, resultsVisible>>

\* the page's showResults: toggleView("results"), the phase classes and
\* run-active removed, then the redraw hook
ShowResults ==
  /\ ~observerQueued
  /\ runActive
  /\ runActive' = FALSE
  /\ phase' = "neutral"
  /\ resultsVisible' = TRUE
  /\ observerQueued' = Installed
  /\ Redraw
  /\ UNCHANGED <<envVars, mouseVars, stepVars>>

\* startSession's catch, reached before any event of the session is read:
\* toggleView("start"), no redraw call
StartFailed ==
  /\ ~observerQueued
  /\ runActive
  /\ phase = "neutral"
  /\ runActive' = FALSE
  /\ observerQueued' = Installed
  /\ UNCHANGED <<envVars, schedVars, mouseVars, stepVars, phase, resultsVisible,
                 lastOp>>

\* the MutationObserver callback of line 255: a microtask, it runs when the
\* script that changed body's class ends, before any other event
ClassObserver ==
  /\ observerQueued
  /\ observerQueued' = FALSE
  /\ EnsureRun(FALSE)
  /\ lastOp' = Event("classmutation")
  /\ UNCHANGED <<envVars, mouseVars, stepVars, runActive, phase, resultsVisible>>

\* time passes
Tick ==
  /\ ~observerQueued
  /\ now + TickLong <= MaxNow
  /\ now' = now + TickLong
  /\ UNCHANGED <<ctx, schedVars, mouseVars, domVars, stepVars, frameAt, innerWidth,
                 innerHeight, resizeQueued, frames, lastOp>>

\* the browser runs an animation frame: its timestamp is later than the last
\* frame's
AnimationFrame ==
  /\ ~observerQueued
  /\ now > frameAt
  /\ Frame(now)
  /\ UNCHANGED <<now, frames>>

\* the state the script leaves when it has run (lines 1-290) in a window of
\* size v, with or without a 2d context
AfterLoad(v, hasCtx) ==
  LET b == Rebuilt(Max(1, v[1]), Max(1, v[2]))
  IN  /\ ctx = hasCtx
      /\ innerWidth = v[1]
      /\ innerHeight = v[2]
      /\ resizeQueued = FALSE
      /\ now = 0
      /\ frameAt = -1
      /\ mouseX = -PosUnit
      /\ mouseY = -PosUnit
      /\ mouseActive = FALSE
      /\ mouseMoveAt = 0
      /\ runActive = FALSE
      /\ phase = "neutral"
      /\ resultsVisible = FALSE
      /\ observerQueued = FALSE
      /\ acc = <<>>
      /\ lastStep = NoStep
      /\ drawn = FALSE
      /\ frames = 0
      /\ lastOp = [op |-> "load", wasRunning |-> FALSE]
      /\ IF hasCtx
         THEN /\ graph = b.graph
              /\ lastW = b.lastW
              /\ lastH = b.lastH
              /\ lastSpacing = b.lastSpacing
              /\ hubPicks = b.hubPicks
              /\ hubLog = b.hubLog
              /\ running = TRUE
              /\ lastTs = 0
              /\ raf = 1
              /\ pendingFrames = 1
         ELSE /\ graph = EmptyGraph
              /\ lastW = 0
              /\ lastH = 0
              /\ lastSpacing = 40
              /\ hubPicks = <<>>
              /\ hubLog = <<>>
              /\ running = FALSE
              /\ lastTs = 0
              /\ raf = 0
              /\ pendingFrames = 0

Init == \E v \in Viewports, hasCtx \in BOOLEAN : AfterLoad(v, hasCtx)

Next ==
  \/ \E v \in Viewports : ViewportChange(v)
  \/ Resize
  \/ \E p \in Pointers : PointerMove(p)
  \/ PointerLeave
  \/ \E t \in {<<>>} \cup {<<p>> : p \in Pointers} : TouchMove(t)
  \/ TouchEnd
  \/ StartSession
  \/ \E ph \in {"neutral", "phase-light", "phase-post"} : SetPhase(ph)
  \/ ShowResults
  \/ StartFailed
  \/ ClassObserver
  \/ Tick
  \/ AnimationFrame

Spec == Init /\ [][Next]_vars

\* ---------------------------------------------------------------- claims on the scheduler

WakeOps == {"resize", "pointermove", "pointerleave", "touchmove", "touchend",
            "classmutation", "redraw"}

\* C1: whatever wake requests and frame callbacks have run, exactly one
\* animation-frame callback is pending while running is true and none while
\* it is false (so a wake while Running has not scheduled a second one).
C1_OnePendingFrame ==
  /\ running => pendingFrames = 1 /\ raf # 0
  /\ ~running => pendingFrames = 0

\* C1's case: a wake request made while the scheduler was Running.
C1_Witness ==
  /\ lastOp.op \in WakeOps
  /\ lastOp.wasRunning
  /\ running
  /\ pendingFrames = 1

\* C4: the graph in memory is, in rest positions, hub flags, degrees and edge
\* sequence, the graph buildGraph gives for (lastW, lastH), whatever the
\* clock, the pointer, the phase and the graphs built before were when it
\* was built: the build depends on (w, h) alone.
C4_Determinism ==
  ctx =>
    LET b == Built(lastW, lastH)
    IN  /\ graph.edges = b.edges
        /\ Len(graph.nodes) = Len(b.nodes)
        /\ \A k \in 1..Len(b.nodes) :
             /\ graph.nodes[k].bx = b.nodes[k].bx
             /\ graph.nodes[k].by = b.nodes[k].by
             /\ graph.nodes[k].hub = b.nodes[k].hub
             /\ graph.nodes[k].deg = b.nodes[k].deg

\* C4's case: a graph rebuilt by a resize, later than the first build, with
\* the pointer active and a phase class set.
C4_Witness ==
  /\ lastOp.op = "resize"
  /\ ctx
  /\ now > 0
  /\ mouseActive
  /\ phase # "neutral"

C10_NoContextNoOp ==
  ~ctx =>
    /\ graph = EmptyGraph
    /\ lastW = 0 /\ lastH = 0
    /\ hubPicks = <<>>
    /\ hubLog = <<>>
    /\ ~running
    /\ raf = 0
    /\ pendingFrames = 0
    /\ ~drawn
    /\ ~observerQueued

\* C10's case: no context, and a resize event dispatched after the page
\* entered its run view.
C10_Witness ==
  /\ ~ctx
  /\ lastOp.op = "resize"
  /\ runActive
  /\ now > 0

\* C12 as stated: no listener, observer callback or redraw call replaces the
\* graph or the width, height and spacing of the last build; only a frame
\* callback does.
C12_AsStated ==
  [][lastOp'.op \in WakeOps => UNCHANGED <<graph, lastW, lastH, lastSpacing>>]_vars

\* ---------------------------------------------------------------- the first build

\* the state in which line 290 is reached, in a window of size v
BeforeLoad(v) ==
  /\ ctx = TRUE
  /\ innerWidth = v[1]
  /\ innerHeight = v[2]
  /\ resizeQueued = FALSE
  /\ now = 0
  /\ frameAt = -1
  /\ mouseX = -PosUnit
  /\ mouseY = -PosUnit
  /\ mouseActive = FALSE
  /\ mouseMoveAt = 0
  /\ runActive = FALSE
  /\ phase = "neutral"
  /\ resultsVisible = FALSE
  /\ observerQueued = FALSE
  /\ acc = <<>>
  /\ lastStep = NoStep
  /\ drawn = FALSE
  /\ frames = 0
  /\ lastOp = [op |-> "script", wasRunning |-> FALSE]
  /\ graph = EmptyGraph
  /\ lastW = 0
  /\ lastH = 0
  /\ lastSpacing = 40
  /\ hubPicks = <<>>
  /\ hubLog = <<>>
  /\ running = FALSE
  /\ lastTs = 0
  /\ raf = 0
  /\ pendingFrames = 0

\* ensureRun(true) of line 290
FirstEnsureRun ==
  /\ lastOp.op = "script"
  /\ EnsureRun(TRUE)
  /\ lastOp' = Event("load")
  /\ UNCHANGED <<envVars, mouseVars, domVars, stepVars>>

InitBuild == \E v \in BuildViewports : BeforeLoad(v)

NextBuild == FirstEnsureRun

SpecBuild == InitBuild /\ [][NextBuild]_vars

\* ---------------------------------------------------------------- steps alone

\* the display's refresh interval in ms: dt = 0.016
FrameGap == 16

\* pointer positions around a node, in tenths of attractRadius: at half the
\* radius (along an axis and along 3-4-5 diagonals), on the node, on the
\* radius, and at twice the radius
StepOffsets == {<<5, 0>>, <<3, 4>>, <<-4, -3>>, <<0, 0>>, <<10, 0>>, <<20, 0>>}

\* ms between the last pointer move and the first frame
StepAges == {16, 179, 180}

\* displacements of every node from rest, in px: none, or 10 units
StepDisplacements == {<<0, 0>>, <<10, 0>>}

\* displacements of 10 units
SettleDisplacements == {<<10, 0>>, <<0, 10>>, <<-6, 8>>, <<-8, -6>>}

\* nodes at rest + d px each, as earlier steps can leave them (lines 218-219)
Displaced(nodes, d) ==
  [k \in 1..Len(nodes) |->
     [nodes[k] EXCEPT !.x = nodes[k].bx + d[1] * PosUnit,
                      !.y = nodes[k].by + d[2] * PosUnit]]

\* a running loop with one frame pending at StartAt in the smallest window:
\* nodes displaced by d with zero velocity, the pointer last seen at pos, the
\* page's classes as given, lastTs as ensureRun or the frame before left it
RunningSince(t0, d, pos, active, age, ra, rv) ==
  LET b == Rebuilt(20, 20)
  IN  /\ ctx = TRUE
      /\ innerWidth = 20
      /\ innerHeight = 20
      /\ resizeQueued = FALSE
      /\ now = StartAt
      /\ frameAt = StartAt
      /\ graph = [nodes |-> Displaced(b.graph.nodes, d), edges |-> b.graph.edges]
      /\ lastW = b.lastW
      /\ lastH = b.lastH
      /\ lastSpacing = b.lastSpacing
      /\ hubPicks = b.hubPicks
      /\ hubLog = b.hubLog
      /\ mouseX = pos[1]
      /\ mouseY = pos[2]
      /\ mouseActive = active
      /\ mouseMoveAt = StartAt + FrameGap - age
      /\ runActive = ra
      /\ phase = "neutral"
      /\ resultsVisible = rv
      /\ observerQueued = FALSE
      /\ acc = <<>>
      /\ lastStep = NoStep
      /\ drawn = TRUE
      /\ frames = 0
      /\ lastOp = [op |-> "start", wasRunning |-> TRUE]
      /\ running = TRUE
      /\ lastTs = t0
      /\ raf = 1
      /\ pendingFrames = 1

\* the same, lastTs being the time the pending frame was requested at
Running(d, pos, active, age, ra, rv) == RunningSince(StartAt, d, pos, active, age, ra, rv)

\* the pointer at off tenths of attractRadius from node k of the graph
\* displaced by d
PointerAt(k, off, d) ==
  LET n == Displaced(Rebuilt(20, 20).graph.nodes, d)[k]
      tenth == AttractRadius(Rebuilt(20, 20).lastSpacing) * (CentiPerPos \div 10)
  IN  <<n.x + off[1] * tenth, n.y + off[2] * tenth>>

\* the browser runs the pending frame with a timestamp gap ms after the
\* time of the state
FrameAfter(gap) ==
  /\ now' = now + gap
  /\ frames' = frames + 1
  /\ Frame(now + gap)

\* the browser runs the pending frame one refresh interval later
NextFrame == FrameAfter(FrameGap)

StepFrame == frames < MaxStepFrames /\ NextFrame

InitStep ==
  \E k \in 1..MaxStepNode, off \in StepOffsets, d \in StepDisplacements,
     active \in BOOLEAN, age \in StepAges, ra \in BOOLEAN, rv \in BOOLEAN :
    /\ ~(ra /\ rv)
    /\ Running(d, PointerAt(k, off, d), active, age, ra, rv)

NextStep == StepFrame

SpecStep == InitStep /\ [][NextStep]_vars

SettleFrame == frames < MaxSettleFrames /\ NextFrame

InitSettle ==
  \E d \in SettleDisplacements :
    Running(d, <<-PosUnit, -PosUnit>>, FALSE, FrameGap, FALSE, FALSE)

NextSettle == SettleFrame

SpecSettle == InitSettle /\ [][NextSettle]_vars

\* ---------------------------------------------------------------- wake requests, and the frames the browser owes

\* the browser runs the pending callback at its next rendering update; the
\* model's clock stops at MaxNow, and frames past it carry that timestamp
WakeFrame ==
  /\ ~observerQueued
  /\ Frame(now)
  /\ UNCHANGED <<now, frames>>

\* the windows of SpecWake: the smallest, and one 40 px wider
WakeViewports == {<<20, 20>>, <<60, 20>>}

InitWake == \E v \in WakeViewports : AfterLoad(v, TRUE)

NextWake ==
  \/ \E v \in WakeViewports : ViewportChange(v)
  \/ Resize
  \/ PointerLeave
  \/ TouchEnd
  \/ StartSession
  \/ \E ph \in {"neutral", "phase-light", "phase-post"} : SetPhase(ph)
  \/ ShowResults
  \/ ClassObserver
  \/ Tick
  \/ WakeFrame

\* a requested animation frame callback is run however many events arrive
\* before it, and the microtask of the MutationObserver runs when the script
\* that queued it ends
SpecWake == InitWake /\ [][NextWake]_vars /\ SF_vars(WakeFrame) /\ WF_vars(ClassObserver)

\* ---------------------------------------------------------------- frame times alone

\* ms from the time of the state to the timestamp of the next frame: none,
\* around the two ends of the clamp, and a tab that was in the background
ClockGaps == {0, 1, 5, 7, 8, 9, 16, 31, 32, 33, 5000}

\* ms by which performance.now() in ensureRun (line 250) is later than the
\* timestamp of the frame that follows: the callback requested during a
\* rendering update runs in that update, with the time the update began
ClockSkews == {0, 5}

\* the pointer at half the radius from node 1, and at twice the radius
ClockOffsets == {<<5, 0>>, <<20, 0>>}

ClockFrame == \E gap \in ClockGaps : frames < MaxClockFrames /\ FrameAfter(gap)

InitClock ==
  \E skew \in ClockSkews, off \in ClockOffsets, active \in BOOLEAN :
    RunningSince(StartAt + skew, <<10, 0>>, PointerAt(1, off, <<10, 0>>), active,
                 FrameGap, FALSE, FALSE)

NextClock == ClockFrame

SpecClock == InitClock /\ [][NextClock]_vars

\* ---------------------------------------------------------------- rebuilds alone

\* the window takes size v; its "resize" event is due
ViewportJitter(v) ==
  /\ v # <<innerWidth, innerHeight>>
  /\ innerWidth' = v[1]
  /\ innerHeight' = v[2]
  /\ resizeQueued' = TRUE
  /\ lastOp' = Event("viewport")
  /\ UNCHANGED <<ctx, schedVars, mouseVars, domVars, stepVars, frameAt, now, frames>>

ResizeFrame == frames < MaxResizeFrames /\ NextFrame

InitResize == \E v \in ResizeViewports : AfterLoad(v, TRUE)

NextResize ==
  \/ \E v \in ResizeViewports : ViewportJitter(v)
  \/ Resize
  \/ PointerLeave
  \/ ResizeFrame

SpecResize == InitResize /\ [][NextResize]_vars

\* ---------------------------------------------------------------- claims on the rebuild

\* what buildGraph leaves of a graph whatever steps follow: per node the
\* rest position, the hub flag and the degree, and the edges
Shape(g) ==
  [nodes |-> [k \in 1..Len(g.nodes) |->
                [bx |-> g.nodes[k].bx, by |-> g.nodes[k].by,
                 hub |-> g.nodes[k].hub, deg |-> g.nodes[k].deg]],
   edges |-> g.edges]

\* the step just taken called resizeMaybeRebuild: from the "resize" listener
\* (forced), from the "pointerleave" listener, or from a frame that ran
CalledRebuild ==
  lastOp'.op \in {"resize", "pointerleave"} \/ (lastOp'.op = "frame" /\ lastOp'.wasRunning)

\* C13: a call of resizeMaybeRebuild replaces the graph by the build for the
\* current window and sets lastW, lastH to its clamped size if it is forced,
\* or the width or the height is more than 36 px off the last build's, or
\* the graph has no nodes; otherwise it leaves the graph, lastW and lastH as
\* they were, so unforced calls in windows within 36 px of the last build
\* never rebuild.
C13_Hysteresis ==
  [][CalledRebuild =>
       LET w == Max(1, innerWidth)
           h == Max(1, innerHeight)
       IN  IF \/ lastOp'.op = "resize"
              \/ w - lastW > 36 \/ lastW - w > 36
              \/ h - lastH > 36 \/ lastH - h > 36
              \/ Len(graph.nodes) = 0
           THEN /\ lastW' = w /\ lastH' = h
                /\ Shape(graph') = Shape(Rebuilt(w, h).graph)
                /\ lastOp'.op # "frame" => graph' = Rebuilt(w, h).graph
           ELSE /\ lastW' = lastW /\ lastH' = lastH
                /\ Shape(graph') = Shape(graph)
                /\ lastOp'.op # "frame" => graph' = graph]_vars

\* C13's case: a frame has just run in a window 36 px wider than the last
\* build's, and the graph is still the one built for that window.
C13_Witness ==
  /\ lastOp.op = "frame" /\ lastOp.wasRunning
  /\ innerWidth = 56 /\ lastW = 20 /\ lastH = innerHeight
  /\ Shape(graph) = Shape(Rebuilt(20, 20).graph)
  /\ Shape(graph) # Shape(Rebuilt(56, 20).graph)

\* ---------------------------------------------------------------- claims on the step

\* a frame has just run step
Stepped == lastOp.op = "frame" /\ lastOp.wasRunning

\* lastSpacing * 4.8 in centi-pixels
Radius == lastSpacing * 480

\* the squared distance, in square centi-pixels and exact, between the
\* pointer and the position node k had when the last step read it
PointerDist2(k) == Dist2(mouseX, mouseY, acc[k].from[1], acc[k].from[2], 3 * Radius)

\* vector p points the way of vector d: each component has the sign of d's,
\* and the two are parallel within the rounding of the arithmetic
Along(p, d) ==
  /\ (d[1] > 0 => p[1] > 0) /\ (d[1] < 0 => p[1] < 0) /\ (d[1] = 0 => p[1] = 0)
  /\ (d[2] > 0 => p[2] > 0) /\ (d[2] < 0 => p[2] < 0) /\ (d[2] = 0 => p[2] = 0)
  /\ Abs((Abs(p[1]) \div 1000) * (Abs(d[2]) \div CentiPerPos)
           - (Abs(p[2]) \div 1000) * (Abs(d[1]) \div CentiPerPos))
       <= (Abs(d[1]) + Abs(d[2])) \div CentiPerPos

\* C7: in a step run while body has run-active or the results panel shows,
\* no node gets a pointer term, whatever the pointer's position, active flag
\* and last move are, and every node gets its spring term 8.8 * (rest - position).
C7_GateBlocksPointer ==
  Stepped /\ (runActive \/ resultsVisible) =>
    /\ ~lastStep.recentlyMoved
    /\ Len(acc) = Len(graph.nodes)
    /\ \A k \in 1..Len(acc) :
         /\ acc[k].pointer = <<0, 0>>
         /\ acc[k].spring = <<SMulDiv(graph.nodes[k].bx - acc[k].from[1], 11, 125),
                              SMulDiv(graph.nodes[k].by - acc[k].from[2], 11, 125)>>

\* C7's case: a step under run-active with the pointer active, moved less
\* than 180 ms before, inside the radius of a node that is off its rest
\* position.
C7_Witness ==
  /\ Stepped /\ runActive
  /\ mouseActive /\ lastTs - mouseMoveAt < 180
  /\ \E k \in 1..Len(acc) :
       /\ PointerDist2(k) = <<(Radius \div 2) * (Radius \div 2), 0>>
       /\ acc[k].spring # <<0, 0>>

\* C8: in a step with interaction enabled and the pointer active and moved
\* less than 180 ms before, a node at half attractRadius from the pointer
\* gets a nonzero pointer term pointing from the node to the pointer, and a
\* node at attractRadius or farther gets none.
C8_Locality ==
  Stepped /\ ~(runActive \/ resultsVisible) /\ mouseActive /\ lastTs - mouseMoveAt < 180 =>
    \A k \in 1..Len(acc) :
      /\ PointerDist2(k) = <<(Radius \div 2) * (Radius \div 2), 0>> =>
            /\ acc[k].pointer # <<0, 0>>
            /\ Along(acc[k].pointer, <<mouseX - acc[k].from[1], mouseY - acc[k].from[2]>>)
      /\ NotFarther(<<Radius * Radius, 0>>, PointerDist2(k)) => acc[k].pointer = <<0, 0>>

\* C8's case: one step in which a node was at exactly half the radius and
\* was pulled, and another node was beyond the radius.
C8_Witness ==
  /\ Stepped /\ ~(runActive \/ resultsVisible) /\ mouseActive /\ lastTs - mouseMoveAt < 180
  /\ \E k \in 1..Len(acc) :
       /\ PointerDist2(k) = <<(Radius \div 2) * (Radius \div 2), 0>>
       /\ acc[k].pointer # <<0, 0>>
  /\ \E k \in 1..Len(acc) :
       /\ NotFarther(<<Radius * Radius, 0>>, PointerDist2(k))
       /\ acc[k].pointer = <<0, 0>>

\* C9: from every node 10 units off its rest position with zero velocity and
\* no pointer, frames 16 ms apart stop the loop within SettleFrames frames:
\* a frame keeps the loop running exactly while the settling metric is above
\* 0.0013, and the loop that stopped has no frame pending.
C9_SettlingConvergence ==
  /\ frames >= SettleFrames => ~running
  /\ ~running => raf = 0 /\ pendingFrames = 0
  /\ Stepped => (running <=> lastStep.energy > 13 * Len(graph.nodes))
  /\ Stepped => lastStep.dt = 16 /\ ~lastStep.recentlyMoved

\* C9's case: the loop has stopped after some hundreds of frames, the
\* metric at or below 0.0013.
C9_Witness ==
  /\ Stepped /\ ~running /\ pendingFrames = 0
  /\ frames > 300 /\ frames <= SettleFrames
  /\ lastStep.energy <= 13 * Len(graph.nodes)

\* the pointer moved less than 180 ms before the timestamp of the last frame
MovedLately == lastTs - mouseMoveAt < 180

\* the settling metric the last step returned is above 0.0013
StillSettling == lastStep.energy > 13 * Max(1, Len(graph.nodes))

\* C11: at the end of every frame run while running, a frame is pending and
\* the loop is still running if and only if the settling metric of this
\* frame's step is above 0.0013, or interaction is enabled and the pointer is
\* active and moved less than 180 ms before the frame's timestamp; otherwise
\* the loop is idle with no frame pending.
C11_Continuation ==
  Stepped =>
    IF StillSettling \/ (~(runActive \/ resultsVisible) /\ mouseActive /\ MovedLately)
    THEN running /\ raf # 0 /\ pendingFrames = 1
    ELSE ~running /\ raf = 0 /\ pendingFrames = 0

\* C11's case: a frame whose step left every node at rest, kept running by
\* the pointer alone, and after it a frame 180 ms or more after the last
\* move, which stopped the loop.
C11_Witness ==
  /\ Stepped /\ frames = 2 /\ ~running /\ pendingFrames = 0
  /\ ~StillSettling
  /\ ~(runActive \/ resultsVisible) /\ mouseActive
  /\ lastTs - mouseMoveAt >= 180 /\ lastTs - FrameGap - mouseMoveAt < 180

\* C14: a step changes only the position and the velocity of nodes: the
\* number and order of nodes, every node's rest position, hub flag and
\* degree, and the edge list are after a frame's step what they were before
\* it, whatever dt the frame computed and wherever the pointer is.
C14_StepFrame ==
  [][frames' = frames + 1 /\ running =>
       /\ Len(graph'.nodes) = Len(graph.nodes)
       /\ Shape(graph') = Shape(graph)
       /\ Len(acc') = Len(graph.nodes)
       /\ \A k \in 1..Len(graph.nodes) :
            acc'[k].from = <<graph.nodes[k].x, graph.nodes[k].y>>]_vars

\* C14's case: a step with dt = 0.032 that moved a hub and gave it a
\* velocity, the pointer pulling it.
C14_Witness ==
  /\ Stepped /\ lastStep.dt = 32 /\ lastStep.recentlyMoved
  /\ \E k \in 1..Len(graph.nodes) :
       /\ graph.nodes[k].hub
       /\ acc[k].pointer # <<0, 0>>
       /\ <<graph.nodes[k].x, graph.nodes[k].y>> # acc[k].from
       /\ graph.nodes[k].vx # 0

\* C15: every step a frame runs gets a dt of 8 to 32 ms: 16 ms when the
\* frame's timestamp equals lastTs, 8 ms when it is earlier than lastTs or
\* less than 8 ms later, 32 ms when it is more than 32 ms later, and the
\* difference itself otherwise.
C15_DtClamped ==
  Stepped =>
    /\ lastStep.dt \in 8..32
    /\ lastStep.dt = (IF lastStep.elapsed = 0 THEN 16
                      ELSE IF lastStep.elapsed < 8 THEN 8
                      ELSE IF lastStep.elapsed > 32 THEN 32
                      ELSE lastStep.elapsed)

\* C15's case: a frame whose timestamp is earlier than lastTs ran step with
\* dt = 0.008.
C15_Witness ==
  /\ Stepped /\ frames = 1
  /\ lastStep.elapsed < 0
  /\ lastStep.dt = 8

\* the last callback was a listener, the observer or the redraw hook, and it
\* called ensureRun
WakeRequested == lastOp.op \in WakeOps

\* C16: every call of ensureRun, the scheduler idle or running before it, is
\* followed by a frame that runs step and draws with the palette of the
\* phase class body carries at that frame; so is the call setPhase makes
\* through redrawNeuralBackground after writing the class.
C16_NoLostWake ==
  WakeRequested ~> (Stepped /\ drawn /\ lastOp.palette = Palette)

\* C16's case: a frame has drawn with the post-light palette; only setPhase
\* writes that class, and it calls the redraw hook, the scheduler idle.
C16_Witness ==
  /\ Stepped /\ drawn
  /\ runActive /\ phase = "phase-post"
  /\ lastOp.palette.hub = "rgba(212, 226, 248, 0.30)"
  /\ ~running /\ pendingFrames = 0

\* ---------------------------------------------------------------- hub selection alone

\* the windows of SpecBuild, the window of the 1280 x 720 scenario, and a
\* window whose seed is 0
HubViewports == BuildViewports \cup {<<1280, 720>>, <<147380, 8423>>}

\* lines 100-111 of the first build, the other passes left out
HubSelection ==
  /\ lastOp.op = "script"
  /\ hubPicks' = HubPass(Max(1, innerWidth), Max(1, innerHeight)).picks
  /\ lastOp' = Event("hubs")
  /\ UNCHANGED <<graph, lastW, lastH, lastSpacing, hubLog, running, lastTs, raf,
                 pendingFrames, envVars, mouseVars, domVars, stepVars>>

InitHubs == \E v \in HubViewports : BeforeLoad(v)

NextHubs == HubSelection

SpecHubs == InitHubs /\ [][NextHubs]_vars

\* ---------------------------------------------------------------- claims on the build

EdgeKeys == {EdgeKey(e[1], e[2]) : e \in Range(graph.edges)}

\* the distinct nodes the hub pass linked hub entry e to
Targets(e) == Range(e.near) \cup Range(e.far)

\* what the claim C5 gives as the number of link targets of hub entry e
PromisedTargets(e) ==
  LET m == Min(e.links, Len(e.cand))
  IN  m + Min(e.farLinks, Len(e.cand) - m)

\* C2: the graph buildGraph returns has no edge from a node to itself and no
\* two edges with the same unordered pair of endpoints, whichever pass added
\* the edge.
C2_NoLoopNoDuplicate ==
  /\ \A e \in Range(graph.edges) : e[1] # e[2]
  /\ Cardinality(EdgeKeys) = Len(graph.edges)

\* C2's case: a built graph in which the hub pass met an edge already there
\* (a far pick that is also one of the hub's near links).
C2_Witness ==
  /\ Len(graph.edges) > 0
  /\ \E k \in 1..Len(hubLog) : Range(hubLog[k].far) \cap Range(hubLog[k].near) # {}

\* nodes.length for the window
NodeCount ==
  Rows(Max(1, innerWidth), Max(1, innerHeight)) * Cols(Max(1, innerWidth))

\* max(8, round(0.024 * nodeCount))
PromisedHubs ==
  IF (48 * NodeCount + 1000) \div 2000 > 8 THEN (48 * NodeCount + 1000) \div 2000 ELSE 8

\* the nodes whose hub flag the selection set
HubFlags == {hubPicks[k].pick : k \in 1..Len(hubPicks)}

\* C3 as stated: the number of nodes flagged as hubs is
\* max(8, round(0.024 * nodeCount)), whatever the generator draws.
C3_AsStated == lastOp.op = "hubs" => Cardinality(HubFlags) = PromisedHubs

\* C3 amended: the selection runs max(8, round(0.024 * nodeCount)) slots, each
\* flagging one node; a slot flags an already flagged node only after 60
\* redraws that all hit flagged nodes, so the number of hubs is at most that
\* many and equals it when no slot used up its redraws.
C3_HubCount ==
  lastOp.op = "hubs" =>
    /\ Len(hubPicks) = PromisedHubs
    /\ \A k \in 1..Len(hubPicks) :
         /\ hubPicks[k].pick \in 0..(NodeCount - 1)
         /\ hubPicks[k].guard \in 0..60
         /\ hubPicks[k].fresh \/ hubPicks[k].guard = 60
    /\ Cardinality(HubFlags) = Cardinality({k \in 1..Len(hubPicks) : hubPicks[k].fresh})
    /\ Cardinality(HubFlags) \in 1..PromisedHubs
    /\ (\A k \in 1..Len(hubPicks) : hubPicks[k].guard < 60)
         => Cardinality(HubFlags) = PromisedHubs

\* C3's case: a selection in which a slot drew a flagged node, drew again,
\* and the graph still got its full number of hubs.
C3_Witness ==
  /\ lastOp.op = "hubs"
  /\ \E k \in 1..Len(hubPicks) : hubPicks[k].guard > 0 /\ hubPicks[k].fresh
  /\ Cardinality(HubFlags) = PromisedHubs

\* C5 as stated: every hub is linked to exactly min(links, C) + min(farLinks,
\* C - min(links, C)) targets, its far links going to distinct candidates
\* beyond the near ones.
C5_AsStated ==
  \A k \in 1..Len(hubLog) :
    LET e == hubLog[k]
    IN  /\ Cardinality(Targets(e)) = PromisedTargets(e)
        /\ Range(e.far) \cap Range(e.near) = {}
        /\ Cardinality(Range(e.far)) = Len(e.far)

\* C5 amended: for every hub, `links` is in 8..15 and `farLinks` in 2..3; the
\* near links go to the min(links, C) nearest of its C candidates; each of
\* the farLinks far picks lands on one candidate anywhere in the sorted list,
\* possibly one already linked; the hub ends adjacent to every target, and
\* the number of distinct targets lies between min(links, C) and
\* min(links, C) + min(farLinks, C - min(links, C)).
C5_HubLinks ==
  \A k \in 1..Len(hubLog) :
    LET e == hubLog[k]
        C == Len(e.cand)
        m == Min(e.links, C)
    IN  /\ e.links \in 8..15
        /\ e.farLinks \in 2..3
        /\ e.near = SubSeq(e.cand, 1, m)
        /\ Len(e.far) = (IF C > 0 THEN e.farLinks ELSE 0)
        /\ Range(e.far) \subseteq Range(e.cand)
        /\ \A t \in Targets(e) : EdgeKey(e.hub, t) \in EdgeKeys
        /\ Cardinality(Targets(e)) >= m
        /\ Cardinality(Targets(e)) <= PromisedTargets(e)

\* C5's case: a hub whose far picks repeat a target, so that it has fewer
\* targets than the stated sum.
C5_Witness ==
  \E k \in 1..Len(hubLog) : Cardinality(Targets(hubLog[k])) < PromisedTargets(hubLog[k])

====
